---- MODULE Spec2Model ----
(***************************************************************************)
(* ViventiumIntegration (src/viventium_integration.py): the request        *)
(* dispatcher, the response normalizer, the division resolver and the      *)
(* employee-profile paginator, as a state machine over coroutine           *)
(* invocations of fetch_employee_profiles.  An invocation advances from    *)
(* one network round trip to the next; the vendor backend is the           *)
(* environment and answers every request with a status and a body.         *)
(***************************************************************************)
EXTENDS Integers, Sequences, FiniteSets, TLC

(***************************************************************************)
(* Bounds of the model.                                                    *)
(***************************************************************************)
\* a backend holds at most MaxFullPages full pages plus one of the Offsets
MaxFullPages == 2
\* a divisions response lists at most MaxDivisions divisions
MaxDivisions == 2
\* record i lacks DivisionKey iff missingMod > 0 and i % missingMod = 0
MaxMissingMod == 2

(***************************************************************************)
(* Program constants.                                                      *)
(***************************************************************************)
PageSize == 100

SuccessStatuses == {200, 201, 204}

AuthStatuses == {400, 401}

\* the statuses the backend answers with
Statuses == SuccessStatuses \cup AuthStatuses \cup {404, 500}

\* what response.json() finds in the body
BodyKinds == {"json_array", "json_object", "not_json"}

Tasks == {1, 2}

DivisionIds == {"D1", "D2"}

Offsets == {0, 1, 50, 99}

Min(a, b) == IF a < b THEN a ELSE b

(***************************************************************************)
(* Header/Cookie builder.                                                  *)
(***************************************************************************)
\* a string is the sequence of its pieces
RECURSIVE make_cookie_string(_)
make_cookie_string(items) ==
    IF items = <<>> THEN <<>>
    ELSE IF Len(items) = 1 THEN <<items[1][1], "=", items[1][2]>>
    ELSE <<items[1][1], "=", items[1][2], "; ">> \o make_cookie_string(Tail(items))

SetupHeaders(self, xsrf_token) ==
    [Host            |-> "hcm.viventium.com",
     User_Agent      |-> self.user_agent,
     Accept          |-> "application/json, text/plain, */*",
     Accept_Language |-> "en-GB,en;q=0.5",
     X_XSRF_TOKEN    |-> xsrf_token,
     Connection      |-> "keep-alive",
     Referer         |-> "https://hcm.viventium.com/apps/vm/",
     Sec_Fetch_Dest  |-> "empty",
     Sec_Fetch_Mode  |-> "cors",
     Sec_Fetch_Site  |-> "same-origin"]

\* if type(cookies) is dict: cookies = make_cookie_string(cookies)
CookieHeader(cookies) ==
    IF cookies.type = "dict" THEN make_cookie_string(cookies.items) ELSE cookies.str

\* headers['Cookie'] = cookies
RequestHeaders(self, xsrf_token, cookies) ==
    ("Cookie" :> CookieHeader(cookies)) @@ SetupHeaders(self, xsrf_token)

\* the (xsrf_token, cookies) pairs callers pass: cookies as a dict, or pre-joined
Credentials ==
    << [xsrf_token |-> "tok123",
        cookies |-> [type |-> "dict",
                     items |-> << <<"sess", "abc">>, <<"lang", "en">> >>,
                     str |-> <<>>]],
       [xsrf_token |-> "tok456",
        cookies |-> [type |-> "str", items |-> <<>>,
                     str |-> <<"sess", "=", "xyz">>]] >>

(***************************************************************************)
(* Requests.                                                               *)
(***************************************************************************)
DivisionsPath(self) == <<self.url, "paystream", "v1", "divisions">>

DivisionsParams == [pageNumber |-> "1", pageSize |-> "1000"]

GridPath(self, division_id) ==
    <<self.url, "paystream", "v1", "divisions", division_id, "grids", "EmployeeProfile">>

QueryOptions(page) ==
    [query            |-> "",
     filterParameters |-> << [fieldName |-> "EmployeeStatus", filterType |-> "In",
                              parsableValue |-> "[\"Active\"]"] >>,
     sortParameters   |-> << [fieldName |-> "EmployeeNumber",
                              direction |-> "Ascending"] >>,
     pageSize         |-> PageSize,
     whereParameters  |-> <<>>,
     pageNumber       |-> page]

\* json.dumps: the object's members as key/value pairs, in insertion order
JsonDumps(q) ==
    << <<"query", q.query>>,
       <<"filterParameters", q.filterParameters>>,
       <<"sortParameters", q.sortParameters>>,
       <<"pageSize", q.pageSize>>,
       <<"whereParameters", q.whereParameters>>,
       <<"pageNumber", q.pageNumber>> >>

GridParams(page) == [queryOptions |-> JsonDumps(QueryOptions(page))]

\* the backend's reading of a member of the serialized query options
JsonMember(s, key) == s[CHOOSE i \in 1..Len(s) : s[i][1] = key][2]

(***************************************************************************)
(* The vendor backend (environment).                                       *)
(***************************************************************************)
HasDivisionKey(b, i) == b.missingMod = 0 \/ i % b.missingMod # 0

Employee(b, i) ==
    IF HasDivisionKey(b, i)
    THEN [EmployeeNumber |-> i, EmployeeStatus |-> "Active", DivisionKey |-> "DK"]
    ELSE [EmployeeNumber |-> i, EmployeeStatus |-> "Active"]

\* the active employees, sorted by EmployeeNumber ascending
Employees(b) == [i \in 1..b.N |-> Employee(b, i)]

\* the slice the grid endpoint serves for a request
GridPage(b, params) ==
    LET size == JsonMember(params.queryOptions, "pageSize")
        num  == JsonMember(params.queryOptions, "pageNumber")
    IN  SubSeq(Employees(b), (num - 1) * size + 1, Min(num * size, b.N))

DivisionsPage(b) == [i \in 1..Len(b.divisions) |-> [id |-> b.divisions[i]]]

BackendSizes == {p * PageSize + o : p \in 0..MaxFullPages, o \in Offsets}

\* division lists in which neighbouring entries differ
DivisionLists ==
    {s \in UNION {[1..n -> DivisionIds] : n \in 0..MaxDivisions} :
        \A i \in 1..(Len(s) - 1) : s[i] # s[i + 1]}

Backends ==
    [N : BackendSizes, missingMod : 0..MaxMissingMod, divisions : DivisionLists]

(***************************************************************************)
(* Response normalizer.                                                    *)
(***************************************************************************)
\* response.json() succeeds: the body is JSON of a JSON content type
Parsable(response) == response.body # "not_json"

Outcome(kind, status_code, value) ==
    [kind |-> kind, status_code |-> status_code, value |-> value]

\* what a dispatch ends in: the parsed body ("value") or the exception raised
HandleResponse(self, response) ==
    IF response.status \in SuccessStatuses
    THEN IF Parsable(response)
         THEN Outcome("value", 0, response.json)
         ELSE Outcome("APIError", response.status, <<>>)
    ELSE IF ~Parsable(response)
         \* response.json() raises JSONDecodeError / ContentTypeError, uncaught
         THEN Outcome("JSONDecodeError", 0, <<>>)
         ELSE IF response.body # "json_object"
         \* r_json.get on a list
         THEN Outcome("AttributeError", 0, <<>>)
         ELSE IF response.status \in AuthStatuses
         THEN Outcome("AuthError", response.status, <<>>)
         ELSE Outcome("APIError", response.status, <<>>)

(***************************************************************************)
(* State.                                                                  *)
(***************************************************************************)
VARIABLES
    adapter,        \* the ViventiumIntegration object's fields
    backend,        \* per invocation: the vendor account it talks to
    creds,          \* per invocation: the (xsrf_token, cookies) arguments
    pc,             \* per invocation: position of the coroutine
    via,            \* per invocation: transport of the dispatch in flight
    division_id,    \* local of fetch_employee_profiles
    path,           \* local of fetch_employee_profiles
    headers,        \* local of fetch_employee_profiles
    page,           \* local of fetch_employee_profiles
    employee_list,  \* local of fetch_employee_profiles
    response,       \* what the last _make_request ended in
    result,         \* how the invocation ended
    reqLog,         \* history: the requests the invocation issued
    lastResp,       \* history: the last raw response
    ended,          \* history: number of dispatches that have ended
    open,           \* aiohttp sessions of the invocation now open
    opened          \* history: aiohttp sessions the invocation opened

vars == <<adapter, backend, creds, pc, via, division_id, path, headers, page,
          employee_list, response, result, reqLog, lastResp, ended, open, opened>>

locals == <<division_id, path, headers, page, employee_list>>

\* every invocation of the coroutine has a frame of its own for its locals
FrameShared(t) == 1

Frame(t) == t

Pending == [status |-> "pending", error |-> "", status_code |-> 0, value |-> <<>>]

InitCommon ==
    /\ adapter = [integration_name |-> "viventium", user_agent |-> "UA",
                  network_requester |-> "None", url |-> "https://hcm.viventium.com/api"]
    /\ via = [t \in Tasks |-> "none"]
    /\ division_id = [t \in Tasks |-> ""]
    /\ path = [t \in Tasks |-> <<>>]
    /\ headers = [t \in Tasks |-> <<>>]
    /\ page = [t \in Tasks |-> 0]
    /\ employee_list = [t \in Tasks |-> <<>>]
    /\ response = [t \in Tasks |-> Outcome("none", 0, <<>>)]
    /\ result = [t \in Tasks |-> Pending]
    /\ reqLog = [t \in Tasks |-> <<>>]
    /\ lastResp = [t \in Tasks |-> [status |-> 0, body |-> "none", json |-> <<>>]]
    /\ ended = [t \in Tasks |-> 0]
    /\ open = [t \in Tasks |-> 0]
    /\ opened = [t \in Tasks |-> 0]

IdleBackend == [N |-> 0, missingMod |-> 0, divisions |-> <<>>]

\* one invocation, against any backend, with either kind of cookies
Init ==
    /\ InitCommon
    /\ pc = [t \in Tasks |-> IF t = 1 THEN "idle" ELSE "off"]
    /\ \E b \in Backends : backend = [t \in Tasks |-> IF t = 1 THEN b ELSE IdleBackend]
    /\ \E c \in 1..Len(Credentials) : creds = [t \in Tasks |-> Credentials[c]]

(***************************************************************************)
(* Request dispatcher.                                                     *)
(***************************************************************************)
\* _make_request up to its await: the request goes out, through the injected
\* requester or through a ClientSession opened for it
MakeRequest(t, method, url, hdrs, params) ==
    LET v == IF adapter.network_requester # "None" THEN "requester" ELSE "session"
    IN  /\ via' = [via EXCEPT ![t] = v]
        /\ reqLog' = [reqLog EXCEPT ![t] =
                        Append(@, [method |-> method, url |-> url, headers |-> hdrs,
                                   params |-> params, via |-> v])]
        /\ open' = [open EXCEPT ![t] = IF v = "session" THEN @ + 1 ELSE @]
        /\ opened' = [opened EXCEPT ![t] = IF v = "session" THEN @ + 1 ELSE @]

NoRequest == UNCHANGED <<via, reqLog, open, opened>>

\* async with: the session is closed however the block is left
SessionsAfterExitLeak(n, outcome) == IF outcome.kind = "value" THEN n - 1 ELSE n

SessionsAfterExit(n, outcome) == n - 1

\* the bodies a status comes with: a success body is the listing or not JSON
BodiesOf(status) ==
    IF status \in SuccessStatuses THEN {"json_array", "not_json"} ELSE BodyKinds

\* the response arrives; _make_request hands it to _handle_response and returns
Respond(t) ==
    /\ pc[t] \in {"div_wait", "grid_wait"}
    /\ \E status \in Statuses : \E body \in BodiesOf(status) :
        LET req  == reqLog[t][Len(reqLog[t])]
            json == IF status \in SuccessStatuses /\ body = "json_array"
                    THEN IF pc[t] = "div_wait" THEN DivisionsPage(backend[t])
                         ELSE GridPage(backend[t], req.params)
                    ELSE <<>>
            raw  == [status |-> status, body |-> body, json |-> json]
            out  == HandleResponse(adapter, raw)
        IN  /\ response' = [response EXCEPT ![t] = out]
            /\ lastResp' = [lastResp EXCEPT ![t] = raw]
            /\ open' = [open EXCEPT ![t] =
                          IF via[t] = "session" THEN SessionsAfterExit(@, out) ELSE @]
    /\ ended' = [ended EXCEPT ![t] = @ + 1]
    /\ via' = [via EXCEPT ![t] = "none"]
    /\ pc' = [pc EXCEPT ![t] = IF @ = "div_wait" THEN "div_ret" ELSE "grid_ret"]
    /\ UNCHANGED <<adapter, backend, creds, locals, result, reqLog, opened>>

NoResponse == [status |-> 0, body |-> "none", json |-> <<>>]

\* no response arrives: the transport raises (aiohttp.ClientError) out of
\* _make_request, past _handle_response
TransportError(t) ==
    /\ pc[t] \in {"div_wait", "grid_wait"}
    /\ LET out == Outcome("ClientError", 0, <<>>)
       IN  /\ response' = [response EXCEPT ![t] = out]
           /\ open' = [open EXCEPT ![t] =
                         IF via[t] = "session" THEN SessionsAfterExit(@, out) ELSE @]
    /\ lastResp' = [lastResp EXCEPT ![t] = NoResponse]
    /\ ended' = [ended EXCEPT ![t] = @ + 1]
    /\ via' = [via EXCEPT ![t] = "none"]
    /\ pc' = [pc EXCEPT ![t] = IF @ = "div_wait" THEN "div_ret" ELSE "grid_ret"]
    /\ UNCHANGED <<adapter, backend, creds, locals, result, reqLog, opened>>

\* initialize(network_requester); the caller configures the adapter while no
\* fetch of it is in flight
Initialize ==
    /\ \A t \in Tasks : pc[t] \in {"off", "idle", "done"}
    /\ \E r \in {"None", "Requester"} :
         adapter' = [adapter EXCEPT !.network_requester = r]
    /\ UNCHANGED <<backend, creds, pc, via, locals, response, result, reqLog,
                   lastResp, ended, open, opened>>

(***************************************************************************)
(* Division resolver and employee-profile paginator.                       *)
(***************************************************************************)
\* an exception raised inside _make_request propagates out of the await
RaisesExceptAPIError(outcome) == outcome.kind \notin {"value", "APIError"}

Raises(outcome) == outcome.kind # "value"

\* the invocation ends by raising
Raise(t, kind, status_code) ==
    /\ result' = [result EXCEPT ![t] = [status |-> "raised", error |-> kind,
                                        status_code |-> status_code, value |-> <<>>]]
    /\ pc' = [pc EXCEPT ![t] = "done"]

\* this_division = response[0]
FirstDivisionLast(divisions) == divisions[Len(divisions)]

FirstDivision(divisions) == divisions[1]

\* employee_list.extend(employees)
ExtendReplace(list, employees) == employees

Extend(list, employees) == list \o employees

\* if len(employees) < 100: break
LastPageNever(employees) == FALSE

LastPage(employees) == Len(employees) < PageSize

\* page += 1
NextPageSkip(p) == p + 2

NextPage(p) == p + 1

\* employee.pop('DivisionKey')
Pop(employee) == [k \in DOMAIN employee \ {"DivisionKey"} |-> employee[k]]

PopRaises(employee) == "DivisionKey" \notin DOMAIN employee

\* for employee in employee_list: employee.pop('DivisionKey')
\* the records before the first one without the key are stripped in place
StripDivisionKeys(list) ==
    LET bad   == {i \in 1..Len(list) : PopRaises(list[i])}
        first == IF bad = {} THEN Len(list) + 1
                 ELSE CHOOSE i \in bad : \A j \in bad : i <= j
    IN  [raises |-> bad # {},
         list   |-> [i \in 1..Len(list) |-> IF i < first THEN Pop(list[i]) ELSE list[i]]]

\* fetch_employee_profiles is called: _get_division_id sends its request
Start(t) ==
    /\ pc[t] = "idle"
    /\ MakeRequest(t, "GET", DivisionsPath(adapter),
                   RequestHeaders(adapter, creds[t].xsrf_token, creds[t].cookies),
                   DivisionsParams)
    /\ pc' = [pc EXCEPT ![t] = "div_wait"]
    /\ UNCHANGED <<adapter, backend, creds, locals, response, result, lastResp,
                   ended>>

\* _get_division_id returns; lines 114-149 up to the request for page 1
DivisionResolved(t) ==
    /\ pc[t] = "div_ret"
    /\ IF Raises(response[t])
       THEN /\ Raise(t, response[t].kind, response[t].status_code)
            /\ NoRequest
            /\ UNCHANGED locals
       ELSE IF response[t].value = <<>>
       THEN /\ Raise(t, "IndexError", 0)
            /\ NoRequest
            /\ UNCHANGED locals
       ELSE LET f   == Frame(t)
                id  == FirstDivision(response[t].value).id
                hd  == RequestHeaders(adapter, creds[t].xsrf_token, creds[t].cookies)
                url == GridPath(adapter, id)
            IN  /\ division_id' = [division_id EXCEPT ![f] = id]
                /\ headers' = [headers EXCEPT ![f] = hd]
                /\ path' = [path EXCEPT ![f] = url]
                /\ employee_list' = [employee_list EXCEPT ![f] = <<>>]
                /\ page' = [page EXCEPT ![f] = 1]
                /\ MakeRequest(t, "GET", url, hd, GridParams(1))
                /\ pc' = [pc EXCEPT ![t] = "grid_wait"]
                /\ UNCHANGED result
    /\ UNCHANGED <<adapter, backend, creds, response, lastResp, ended>>

\* a page's _make_request returns; the rest of the loop body, then either the
\* next page's request or the strip loop and the return
PageReceived(t) ==
    /\ pc[t] = "grid_ret"
    /\ IF Raises(response[t])
       THEN /\ Raise(t, response[t].kind, response[t].status_code)
            /\ NoRequest
            /\ UNCHANGED locals
       ELSE LET f         == Frame(t)
                employees == response[t].value
                list      == IF Len(employees) > 0
                             THEN Extend(employee_list[f], employees)
                             ELSE employee_list[f]
                stop      == Len(employees) = 0 \/ LastPage(employees)
                stripped  == StripDivisionKeys(list)
            IN  IF stop
                THEN /\ employee_list' = [employee_list EXCEPT ![f] = stripped.list]
                     /\ IF stripped.raises
                        THEN Raise(t, "KeyError", 0)
                        ELSE /\ result' = [result EXCEPT ![t] =
                                    [status |-> "returned", error |-> "",
                                     status_code |-> 0, value |-> stripped.list]]
                             /\ pc' = [pc EXCEPT ![t] = "done"]
                     /\ NoRequest
                     /\ UNCHANGED <<division_id, path, headers, page>>
                ELSE /\ employee_list' = [employee_list EXCEPT ![f] = list]
                     /\ page' = [page EXCEPT ![f] = NextPage(@)]
                     /\ MakeRequest(t, "GET", path[f], headers[f],
                                    GridParams(NextPage(page[f])))
                     /\ pc' = [pc EXCEPT ![t] = "grid_wait"]
                     /\ UNCHANGED <<division_id, path, headers, result>>
    /\ UNCHANGED <<adapter, backend, creds, response, lastResp, ended>>

\* a step of invocation t once it has been called
Resume(t) ==
    Respond(t) \/ TransportError(t) \/ DivisionResolved(t) \/ PageReceived(t)

\* a step of invocation t
TaskStep(t) == Start(t) \/ Resume(t)

Next ==
    \/ \E t \in Tasks : Start(t)
    \/ \E t \in Tasks : Respond(t)
    \/ \E t \in Tasks : TransportError(t)
    \/ \E t \in Tasks : DivisionResolved(t)
    \/ \E t \in Tasks : PageReceived(t)
    \/ Initialize

Spec == Init /\ [][Next]_vars

\* every request is answered and the coroutine resumed by it runs on
\* one invocation against a backend of any size
InitFair ==
    /\ InitCommon
    /\ pc = [t \in Tasks |-> IF t = 1 THEN "idle" ELSE "off"]
    /\ \E b \in Backends :
          /\ b.missingMod = 0
          /\ Len(b.divisions) <= 1
          /\ backend = [t \in Tasks |-> IF t = 1 THEN b ELSE IdleBackend]
    /\ creds = [t \in Tasks |-> Credentials[1]]

FairSpec == InitFair /\ [][Next]_vars /\ WF_vars(\E t \in Tasks : Resume(t))

\* the accounts of two concurrent invocations on one adapter
ConcBackends(t) ==
    IF t = 1
    THEN {[N |-> n, missingMod |-> 0, divisions |-> <<"D1", "D2">>] :
             n \in {1, PageSize + 1}}
    ELSE {[N |-> n, missingMod |-> 0, divisions |-> <<"D2">>] :
             n \in {0, PageSize}}

InitConc ==
    /\ InitCommon
    /\ pc = [t \in Tasks |-> "idle"]
    /\ backend \in [Tasks -> UNION {ConcBackends(t) : t \in Tasks}]
    /\ \A t \in Tasks : backend[t] \in ConcBackends(t)
    /\ creds = [t \in Tasks |-> Credentials[t]]

SpecConc == InitConc /\ [][Next]_vars

(***************************************************************************)
(* Properties.                                                             *)
(***************************************************************************)
IsGridRequest(r) == Len(r.url) = 7

IsDivisionsRequest(r) == Len(r.url) = 4

GridRequests(t) == SelectSeq(reqLog[t], IsGridRequest)

DivisionsRequests(t) == SelectSeq(reqLog[t], IsDivisionsRequest)

PageNumberOf(r) == JsonMember(r.params.queryOptions, "pageNumber")

PageSizeOf(r) == JsonMember(r.params.queryOptions, "pageSize")

InFlight(t) == pc[t] \in {"div_wait", "div_ret", "grid_wait", "grid_ret"}

\* the invocation has ended and every request of it was served with a listing
ServedToEnd(t) ==
    /\ pc[t] = "done"
    /\ response[t].kind = "value"
    /\ backend[t].divisions # <<>>

AllHaveDivisionKey(b) == \A i \in 1..b.N : HasDivisionKey(b, i)

\* the number of grid requests a backend of N records takes
PagesOf(b) == (b.N \div PageSize) + 1

C2_ConsecutivePages ==
    \A t \in Tasks :
        LET g == GridRequests(t)
        IN  /\ \A i \in 1..Len(g) : PageNumberOf(g[i]) = i /\ PageSizeOf(g[i]) = 100
            /\ \A i \in 1..(Len(g) - 1) :
                  Len(GridPage(backend[t], g[i].params)) = 100
            /\ Len(g) <= PagesOf(backend[t])
            /\ ServedToEnd(t) =>
                  /\ Len(g) = PagesOf(backend[t])
                  /\ Len(GridPage(backend[t], g[Len(g)].params)) < 100
                  /\ reqLog[t][Len(reqLog[t])] = g[Len(g)]

C2_Witness ==
    \E t \in Tasks :
        /\ ServedToEnd(t)
        /\ backend[t].N = 200
        /\ Len(GridRequests(t)) = 3
        /\ lastResp[t].status = 200
        /\ lastResp[t].json = <<>>

\* C3: whenever every request of a call was served, whatever mix of records
\* with and without DivisionKey the backend holds, the call returns, no
\* returned record has a DivisionKey and every other field is unchanged
C3_StripsIfPresent ==
    \A t \in Tasks :
        ServedToEnd(t) =>
            /\ result[t].status = "returned"
            /\ Len(result[t].value) = backend[t].N
            /\ \A i \in 1..Len(result[t].value) :
                  /\ "DivisionKey" \notin DOMAIN result[t].value[i]
                  /\ \A k \in DOMAIN Employee(backend[t], i) \ {"DivisionKey"} :
                        /\ k \in DOMAIN result[t].value[i]
                        /\ result[t].value[i][k] = Employee(backend[t], i)[k]

\* C4: the normalizer's outcome is decided by the status code (and, for a
\* success status, by whether the body parses): 200/201/204 parsable gives
\* the parsed body, 200/201/204 unparsable an APIError with the response's
\* status, 400/401 an AuthError, every other status an APIError
C4_ClassifiedByStatus ==
    \A t \in Tasks :
        lastResp[t].status \in Statuses =>
            LET raw == lastResp[t]
                out == response[t]
            IN  /\ (raw.status \in SuccessStatuses /\ Parsable(raw)) =>
                      (out.kind = "value" /\ out.value = raw.json)
                /\ (raw.status \in SuccessStatuses /\ ~Parsable(raw)) =>
                      (out.kind = "APIError" /\ out.status_code = raw.status)
                /\ raw.status \in AuthStatuses => out.kind = "AuthError"
                /\ raw.status \notin (SuccessStatuses \cup AuthStatuses) =>
                      out.kind = "APIError"

\* C5: every dispatch that got a response, whatever its status and body,
\* ends in the parsed body, an AuthError or an APIError
C5_TypedOutcome ==
    \A t \in Tasks :
        lastResp[t].status \in Statuses =>
            response[t].kind \in {"value", "AuthError", "APIError"}

\* C6: once a request of a call has failed, the call issues no further
\* request, and it ends by raising that very error with no records returned;
\* no request of a call is sent twice
C6_AllOrNothing ==
    \A t \in Tasks :
        /\ (pc[t] \in {"div_ret", "grid_ret", "done"} /\ response[t].kind # "value") =>
              /\ Len(reqLog[t]) = ended[t]
              /\ pc[t] = "done" =>
                    /\ result[t].status = "raised"
                    /\ result[t].error = response[t].kind
                    /\ result[t].status_code = response[t].status_code
                    /\ result[t].value = <<>>
        /\ result[t].status = "raised" => result[t].value = <<>>
        /\ Len(DivisionsRequests(t)) <= 1
        /\ \A i, j \in 1..Len(GridRequests(t)) :
              i # j => PageNumberOf(GridRequests(t)[i]) # PageNumberOf(GridRequests(t)[j])

C6_Witness ==
    \E t \in Tasks :
        /\ pc[t] = "done"
        /\ result[t].status = "raised"
        /\ result[t].error = "APIError"
        /\ result[t].status_code = 500
        /\ Len(GridRequests(t)) = 2
        /\ Len(employee_list[t]) = 100

\* C7: a dispatch through the default transport holds exactly one session
\* while its request is in flight and none once it has ended, however it
\* ended; a dispatch through an injected requester opens no session
C7_SessionScoped ==
    \A t \in Tasks :
        /\ open[t] = IF pc[t] \in {"div_wait", "grid_wait"} /\ via[t] = "session"
                     THEN 1 ELSE 0
        /\ opened[t] =
              Cardinality({i \in 1..Len(reqLog[t]) : reqLog[t][i].via = "session"})

C7_Witness ==
    \E t \in Tasks :
        /\ pc[t] = "grid_ret"
        /\ response[t].kind = "JSONDecodeError"
        /\ opened[t] = 3
        /\ open[t] = 0

\* C8: a call issues exactly one divisions request, before any grid request;
\* a grid request follows only a divisions response that was a non-empty
\* listing, and every grid request has the id of the first entry of that
\* listing in its path; after an empty listing the call fails with no grid
\* request
C8_DivisionFirst ==
    \A t \in Tasks :
        /\ Len(DivisionsRequests(t)) = IF pc[t] \in {"off", "idle"} THEN 0 ELSE 1
        /\ reqLog[t] # <<>> => IsDivisionsRequest(reqLog[t][1])
        /\ GridRequests(t) # <<>> => backend[t].divisions # <<>>
        /\ (pc[t] = "grid_wait" /\ Len(reqLog[t]) = 2) =>
              /\ lastResp[t].status \in SuccessStatuses
              /\ lastResp[t].json = DivisionsPage(backend[t])
        /\ \A i \in 1..Len(GridRequests(t)) :
              GridRequests(t)[i].url = GridPath(adapter, backend[t].divisions[1])
        /\ (pc[t] = "done" /\ ended[t] = 1 /\ response[t].kind = "value"
               /\ response[t].value = <<>>) =>
              /\ result[t].status = "raised"
              /\ result[t].error = "IndexError"
              /\ GridRequests(t) = <<>>

C8_Witness ==
    \E t \in Tasks :
        /\ backend[t].divisions = <<"D1", "D2">>
        /\ Len(GridRequests(t)) = 2
        /\ GridRequests(t)[2].url[5] = "D1"

\* what invocation t does when it runs alone: its requests carry its own
\* headers and cookie string, its own division id and the pages 1, 2, ...,
\* and it returns its own backend's records without DivisionKey
AsAlone(t) ==
    /\ \A i \in 1..Len(reqLog[t]) :
          reqLog[t][i].headers =
              RequestHeaders(adapter, creds[t].xsrf_token, creds[t].cookies)
    /\ \A i \in 1..Len(GridRequests(t)) :
          /\ GridRequests(t)[i].url = GridPath(adapter, backend[t].divisions[1])
          /\ PageNumberOf(GridRequests(t)[i]) = i
    /\ Len(GridRequests(t)) <= PagesOf(backend[t])
    /\ ServedToEnd(t) => /\ Len(GridRequests(t)) = PagesOf(backend[t])
                         /\ result[t].status = "returned"
    /\ result[t].status = "returned" =>
          result[t].value = [i \in 1..backend[t].N |-> Pop(Employee(backend[t], i))]

\* C9: no step of a fetch writes a field of the adapter, and each of two
\* invocations interleaved at their round trips issues the requests and
\* returns the result it would have alone
C9_Independent ==
    /\ [](\A t \in Tasks : AsAlone(t))
    /\ [][(\E t \in Tasks : TaskStep(t)) => adapter' = adapter]_vars

C9_Witness ==
    /\ pc[1] = "grid_wait"
    /\ pc[2] = "grid_wait"
    /\ Len(GridRequests(1)) = 2
    /\ Len(GridRequests(2)) = 2
    /\ division_id[1] # division_id[2]

\* C10: when every request gets a response, a call that was started ends,
\* having issued at most floor(N/100)+1 grid requests, and it returns only
\* after a page of fewer than 100 records
C10_Terminates ==
    /\ [](\A t \in Tasks :
            /\ Len(GridRequests(t)) <= PagesOf(backend[t])
            /\ result[t].status = "returned" => Len(lastResp[t].json) < PageSize)
    /\ \A t \in Tasks : InFlight(t) ~> pc[t] = "done"

C10_Witness ==
    \E t \in Tasks :
        /\ pc[t] = "done"
        /\ result[t].status = "returned"
        /\ Len(GridRequests(t)) = 3
        /\ backend[t].N = 299

====
